---- MODULE Spec2Model ----
(***************************************************************************)
(* Model of qsub-status.py: the status of one qsub job id is resolved from *)
(* qstat, then the <jobid>.exit file in CLUSTER_DIR, then the              *)
(* <jobid>.missing file (with qacct once missing_job_wait has passed).     *)
(*                                                                         *)
(* Text is modelled structurally: a duration token is a sequence of        *)
(* colon-separated fields, each a sequence of decimal digits; a file       *)
(* content is a sequence of characters.  A Python exception that is not    *)
(* StatusCheckException is an outcome named after the exception.           *)
(***************************************************************************)
EXTENDS Integers, Sequences, FiniteSets, TLC

VARIABLES cfg, now, missing, exitFile, last, probe, race

vars == <<cfg, now, missing, exitFile, last, probe, race>>

----------------------------------------------------------------------------
(* Bounds of the model *)

MaxTicks == 4          \* the clock stops after this many Tick steps
TickSeconds == 30      \* seconds that pass in one Tick
MaxUsageLines == 2     \* most "usage" lines in one qstat report
MaxFields == 5         \* most colon-separated fields in one duration token
MaxCalls == 2          \* most check_status runs of one polling process

(* Values of the cookiecutter parameters *)
CpuHungMinTimes == {0, 1}
CpuHungMaxRatios == {0, 1, 2}
MissingJobWaits == {0, 1}

----------------------------------------------------------------------------
(* Files of CLUSTER_DIR *)

NoFile == [exists |-> FALSE, mtime |-> 0]
MissingFile(t) == [exists |-> TRUE, mtime |-> t]

NL == "\n"
Whitespace == {" ", NL}

RECURSIVE SeqsUpTo(_, _)
SeqsUpTo(S, n) ==
    IF n = 0 THEN {<<>>}
    ELSE LET shorter == SeqsUpTo(S, n - 1)
         IN  shorter \cup {Append(s, x) : s \in {t \in shorter : Len(t) = n - 1}, x \in S}

NoExit == [exists |-> FALSE, content |-> <<>>]
ExitFile(c) == [exists |-> TRUE, content |-> c]

\* what the job script's wrapper may have written to <jobid>.exit
Contents ==
    { <<>>,                          \* ""
      <<"0", NL>>,                   \* "0\n"
      <<"1", NL>>,                   \* "1\n"
      <<"0">>,                       \* "0"
      <<"1", NL, "0", NL>>,          \* "1\n0\n"
      <<"0", NL, "1">>,              \* "0\n1"
      <<" ", "0", " ", NL>>,         \* " 0 \n"
      <<"0", "0", NL>>,              \* "00\n"
      <<"0", NL, NL>> }              \* "0\n\n"

----------------------------------------------------------------------------
(* qstat -j output: returncode, the "job_state" lines, the "usage" lines *)

Absent == [present |-> FALSE, comma |-> FALSE, time_str |-> <<>>]
Field(ts) == [present |-> TRUE, comma |-> TRUE, time_str |-> ts]

T0 == << <<0>> >>                    \* "0"
T30 == << <<3, 0>> >>                \* "30"
T1m == << <<0, 1>>, <<0, 0>> >>      \* "01:00"
T2m == << <<2>>, <<0>> >>            \* "2:0"

\* the fields of the duration tokens given to extract_time alone
FieldTexts == { <<0, 0>>, <<1>>, <<0, 1>>, <<0, 2>>, <<0, 3>> }
TimeTokens == SeqsUpTo(FieldTexts, MaxFields) \ {<<>>}

UsageLine(w, c) == [wallclock |-> w, cpu |-> c]

UsageLines ==
    { UsageLine(Field(T0), Field(T0)),
      UsageLine(Field(T30), Field(T0)),
      UsageLine(Field(T1m), Field(T30)),
      UsageLine(Field(T1m), Field(T2m)),
      UsageLine(Field(T2m), Field(T2m)),
      UsageLine(Absent, Field(T1m)),
      UsageLine(Field(T1m), Absent) }

JobStates == { <<"r">>, <<"E", "q", "w">>, <<"q", "w">> }
JobStateLines == {<<>>} \cup { <<s>> : s \in JobStates }

QstatFailed == [returncode |-> 1, job_state |-> <<>>, usage |-> <<>>]
QstatOutputs ==
    {QstatFailed} \cup
    [returncode : {0}, job_state : JobStateLines, usage : SeqsUpTo(UsageLines, MaxUsageLines)]

(* qacct -j output: returncode and the lines, each split on whitespace into
   the key and the rest *)
QacctFailed == [returncode |-> 1, lines |-> <<>>]
QacctNotRun == [returncode |-> -1, lines |-> <<>>]
QacctLines ==
    { <<>>,
      << <<"failed", "0">>, <<"exit_status", "0">> >>,
      << <<"failed", "0">>, <<"exit_status", "1">> >>,
      << <<"failed", "1">>, <<"exit_status", "0">> >>,
      << <<"failed", "0">> >>,
      << <<"exit_status", "0">> >>,
      << <<"failed">>, <<"exit_status", "0">> >>,
      << <<"failed", "1">>, <<"failed", "0">>, <<"exit_status", "0">> >>,
      << <<"failed", "0">>, <<"failed", "1">>, <<"exit_status", "0">> >>,
      << <<"failed", "100">>, <<"exit_status", "0">> >>,
      << <<"failed", "0">>, <<"exit_status", "137">> >>,
      << <<"=====">>, <<"qname", "all.q">>, <<"failed", "0">>,
         <<"exit_status", "0">> >> }
QacctOutputs == {QacctFailed} \cup [returncode : {0}, lines : QacctLines]


----------------------------------------------------------------------------
(* Text helpers *)

\* int(t) of a field of decimal digits
RECURSIVE IntOf(_)
IntOf(digits) ==
    IF digits = <<>> THEN 0
    ELSE 10 * IntOf(SubSeq(digits, 1, Len(digits) - 1)) + digits[Len(digits)]

\* str.strip(): leading and trailing whitespace removed
RECURSIVE LStrip(_)
LStrip(s) ==
    IF s # <<>> /\ Head(s) \in Whitespace THEN LStrip(Tail(s)) ELSE s

RECURSIVE RStrip(_)
RStrip(s) ==
    IF s # <<>> /\ s[Len(s)] \in Whitespace
    THEN RStrip(SubSeq(s, 1, Len(s) - 1)) ELSE s

Strip(s) == LStrip(RStrip(s))

\* file.readlines(): the content cut after every newline, newlines kept
RECURSIVE ReadLines(_)
ReadLines(content) ==
    IF content = <<>> THEN <<>>
    ELSE LET ends == {i \in 1..Len(content) : content[i] = NL}
             cut == IF ends = {} THEN Len(content)
                    ELSE CHOOSE i \in ends : \A j \in ends : i <= j
         IN  <<SubSeq(content, 1, cut)>>
                 \o ReadLines(SubSeq(content, cut + 1, Len(content)))

----------------------------------------------------------------------------
(* qstat_error, extract_time, handle_hung_qstat, qstat_status *)

\* the state of the first "job_state" line, "" when there is none
JobStateOf(qstat_stdout) ==
    IF qstat_stdout.job_state = <<>> THEN <<>> ELSE qstat_stdout.job_state[1]

qstat_error(qstat_stdout) ==
    \E i \in 1..Len(JobStateOf(qstat_stdout)) : JobStateOf(qstat_stdout)[i] = "E"

multipliers == <<1, 60, 60, 24>>

\* TimeLoop without "multiplier *= m": every field is weighed by its own
\* entry of multipliers only
RECURSIVE TimeLoop_no_compound(_, _, _)
TimeLoop_no_compound(time_str, k, multiplier) ==
    IF k > Len(time_str) \/ k > Len(multipliers) THEN 0
    ELSE multiplier * multipliers[k] * IntOf(time_str[Len(time_str) + 1 - k])
             + TimeLoop_no_compound(time_str, k + 1, multiplier)

\* the loop of extract_time over zip(reversed(fields), multipliers), from
\* position k of the reversed fields with the running multiplier
RECURSIVE TimeLoop(_, _, _)
TimeLoop(time_str, k, multiplier) ==
    IF k > Len(time_str) \/ k > Len(multipliers) THEN 0
    ELSE multiplier * multipliers[k] * IntOf(time_str[Len(time_str) + 1 - k])
             + TimeLoop(time_str, k + 1, multiplier * multipliers[k])

\* re.search("<time_name>=([^,]+)(,|$,\n)", line) matches only a value that a
\* comma follows
ReMatches(field) == field.present /\ field.comma /\ field.time_str # <<>>

extract_time(line, time_name) ==
    LET field == IF time_name = "wallclock" THEN line.wallclock ELSE line.cpu
    IN  IF ~ReMatches(field) THEN 0 ELSE TimeLoop(field.time_str, 1, 1)

\* handle_hung_qstat that goes on to the next usage line instead of returning
\* False
handle_hung_qstat_any_line(qstat_stdout, cpu_hung_min_time, cpu_hung_max_ratio) ==
    IF \E i \in 1..Len(qstat_stdout.usage) :
          LET wallclock == extract_time(qstat_stdout.usage[i], "wallclock")
              cpu == extract_time(qstat_stdout.usage[i], "cpu")
          IN  /\ wallclock >= cpu_hung_min_time * 60
              /\ wallclock > 0
              /\ cpu < cpu_hung_max_ratio * wallclock
    THEN "hung" ELSE "nothung"

\* handle_hung_qstat with "<=" for "<" in the ratio test
handle_hung_qstat_le(qstat_stdout, cpu_hung_min_time, cpu_hung_max_ratio) ==
    IF qstat_stdout.usage = <<>> THEN "nothung"
    ELSE LET line == qstat_stdout.usage[1]
             wallclock == extract_time(line, "wallclock")
             cpu == extract_time(line, "cpu")
         IN  IF wallclock < cpu_hung_min_time * 60 THEN "nothung"
             ELSE IF wallclock = 0 THEN "ZeroDivisionError"
             ELSE IF cpu <= cpu_hung_max_ratio * wallclock THEN "hung"
             ELSE "nothung"

\* verdict of handle_hung_qstat: hung (qdel issued, True), nothung (False), or
\* the ZeroDivisionError of cpu / wallclock.  Every branch under the first
\* line that starts with "usage" returns, so the loop ends at that line.
\* cpu / wallclock < ratio is compared as cpu < ratio * wallclock: for integer
\* seconds the float quotient cannot round across the integer ratio.
handle_hung_qstat(qstat_stdout, cpu_hung_min_time, cpu_hung_max_ratio) ==
    IF qstat_stdout.usage = <<>> THEN "nothung"
    ELSE LET line == qstat_stdout.usage[1]
             wallclock == extract_time(line, "wallclock")
             cpu == extract_time(line, "cpu")
         IN  IF wallclock < cpu_hung_min_time * 60 THEN "nothung"
             ELSE IF wallclock = 0 THEN "ZeroDivisionError"
             ELSE IF cpu < cpu_hung_max_ratio * wallclock THEN "hung"
             ELSE "nothung"

\* return codes of "qdel <jobid>"; QdelNotRun when the command was not run
QdelReturnCodes == {0, 1}
QdelNotRun == -1

\* QdelRuns that does not repeat a qdel an earlier poll has run
QdelRuns_once(verdict) ==
    IF verdict = "hung" /\ ~last.qdel_before /\ last.qdel = 0 THEN 1 ELSE 0

\* number of "qdel <jobid>" runs of one handle_hung_qstat call
QdelRuns(verdict) == IF verdict = "hung" THEN 1 ELSE 0

qstat_status(qstat, config) ==
    IF qstat.returncode # 0 THEN "StatusCheckException"
    ELSE LET hung == handle_hung_qstat(qstat, config.cpu_hung_min_time,
                                       config.cpu_hung_max_ratio)
         IN  IF hung = "ZeroDivisionError" THEN "ZeroDivisionError"
             ELSE IF hung = "hung" \/ qstat_error(qstat) THEN "failed"
             ELSE "running"

----------------------------------------------------------------------------
(* cluster_dir_status: [status, file after the call] *)

cluster_dir_status(file) ==
    IF ~file.exists
    THEN [status |-> "StatusCheckException", file |-> file]
    ELSE LET lines == ReadLines(file.content)
         IN  IF lines = <<>>
             THEN [status |-> "IndexError", file |-> file]
             ELSE [status |-> IF Strip(lines[Len(lines)]) = <<"0">>
                              THEN "success" ELSE "failed",
                   file |-> NoExit]

----------------------------------------------------------------------------
(* qacct_status *)

\* JobProp with "0" for the default of job_props.get
RECURSIVE JobProp_default_zero(_, _)
JobProp_default_zero(lines, key) ==
    IF lines = <<>> THEN "0"
    ELSE LET parts == lines[Len(lines)]
         IN  IF Len(parts) > 1 /\ parts[1] = key THEN parts[2]
             ELSE JobProp_default_zero(SubSeq(lines, 1, Len(lines) - 1), key)

\* job_props.get(key, "1") after the loop over the lines: the last line with
\* this key and a value wins
RECURSIVE JobProp(_, _)
JobProp(lines, key) ==
    IF lines = <<>> THEN "1"
    ELSE LET parts == lines[Len(lines)]
         IN  IF Len(parts) > 1 /\ parts[1] = key THEN parts[2]
             ELSE JobProp(SubSeq(lines, 1, Len(lines) - 1), key)

qacct_status(qacct) ==
    IF qacct.returncode # 0 THEN "StatusCheckException"
    ELSE IF JobProp(qacct.lines, "failed") = "0"
            /\ JobProp(qacct.lines, "exit_status") = "0"
         THEN "success" ELSE "failed"

----------------------------------------------------------------------------
(* missing_status *)

\* WaitIsOver with ">=" for ">": qacct is asked the moment the wait is reached
WaitIsOver_ge(file, t, missing_job_wait) == t - file.mtime >= missing_job_wait * 60

\* WaitIsOver for a wait that never ends
WaitIsOver_never(file, t, missing_job_wait) == FALSE

\* time_elapsed > missing_job_wait, with time_elapsed = (now - st_mtime) / 60;
\* missing_job_wait is a whole number of minutes here
WaitIsOver(file, t, missing_job_wait) == t - file.mtime > missing_job_wait * 60

\* the branch of missing_status that runs qacct_status
QacctAsked(file, reset, t, missing_job_wait) ==
    ~reset /\ file.exists /\ WaitIsOver(file, t, missing_job_wait)

\* Touched without the touch: the timestamp of the first miss is never written
Touched_never(file, reset, t) == file

\* Touched with a touch on every call: each poll restarts the wait
Touched_every_poll(file, reset, t) ==
    IF ~reset THEN MissingFile(t) ELSE file

\* "if not p.exists(): p.touch()": the file after the first branch
Touched(file, reset, t) ==
    IF ~reset /\ ~file.exists THEN MissingFile(t) ELSE file

\* MissingVerdict without the "except StatusCheckException"
MissingVerdict_uncaught(file, reset, t, missing_job_wait, qacct) ==
    IF QacctAsked(file, reset, t, missing_job_wait)
    THEN qacct_status(qacct)
    ELSE "running"

\* MissingVerdict that keeps waiting when qacct_status raises
MissingVerdict_keeps_waiting(file, reset, t, missing_job_wait, qacct) ==
    IF QacctAsked(file, reset, t, missing_job_wait)
    THEN IF qacct_status(qacct) = "StatusCheckException" THEN "running"
         ELSE qacct_status(qacct)
    ELSE "running"

\* the status of missing_status: "running" unless qacct_status is asked, and
\* "failed" when that raises StatusCheckException
MissingVerdict(file, reset, t, missing_job_wait, qacct) ==
    IF QacctAsked(file, reset, t, missing_job_wait)
    THEN IF qacct_status(qacct) = "StatusCheckException" THEN "failed"
         ELSE qacct_status(qacct)
    ELSE "running"

\* Unlinked that forgets the reset
Unlinked_no_reset(file, reset, status) ==
    IF status = "failed" THEN NoFile ELSE file

\* "if reset or status == 'failed': p.unlink()"
Unlinked(file, reset, status) ==
    IF reset \/ status = "failed" THEN NoFile ELSE file

\* [status, the <jobid>.missing file after the call]
missing_status(file, reset, t, missing_job_wait, qacct) ==
    LET status == MissingVerdict(file, reset, t, missing_job_wait, qacct)
    IN  [status |-> status,
         file |-> Unlinked(Touched(file, reset, t), reset, status)]

----------------------------------------------------------------------------
(* check_status *)

Skipped == "skipped"
Raised == {"ZeroDivisionError", "IndexError"}
Statuses == {"running", "success", "failed"}

\* check_status that looks at <jobid>.exit before it runs qstat
check_status_exit_first(qstat, qacct, config, t, mfile, efile) ==
    LET q == qstat_status(qstat, config)
        c == cluster_dir_status(efile)
        reset == missing_status(mfile, TRUE, t, config.missing_job_wait, qacct)
        m == missing_status(mfile, FALSE, t, config.missing_job_wait, qacct)
        asked == QacctAsked(mfile, FALSE, t, config.missing_job_wait)
    IN  IF c.status \in Raised
        THEN [status |-> c.status, calls |-> <<"cluster_dir_status">>,
              qstat |-> Skipped, exit |-> c.status, missing |-> Skipped,
              mfile |-> mfile, efile |-> c.file]
        ELSE IF c.status # "StatusCheckException"
        THEN [status |-> c.status,
              calls |-> <<"cluster_dir_status", "missing_status(reset=True)">>,
              qstat |-> Skipped, exit |-> c.status, missing |-> Skipped,
              mfile |-> reset.file, efile |-> c.file]
        ELSE IF q \in Raised
        THEN [status |-> q, calls |-> <<"cluster_dir_status", "qstat_status">>,
              qstat |-> q, exit |-> c.status, missing |-> Skipped,
              mfile |-> mfile, efile |-> efile]
        ELSE IF q # "StatusCheckException"
        THEN [status |-> q,
              calls |-> <<"cluster_dir_status", "qstat_status",
                          "missing_status(reset=True)">>,
              qstat |-> q, exit |-> c.status, missing |-> Skipped,
              mfile |-> reset.file, efile |-> efile]
        ELSE [status |-> m.status,
              calls |-> <<"cluster_dir_status", "qstat_status",
                          "missing_status(reset=False)">>
                        \o (IF asked THEN <<"qacct_status">> ELSE <<>>),
              qstat |-> q, exit |-> c.status, missing |-> m.status,
              mfile |-> m.file, efile |-> c.file]

\* One run of check_status on the scheduler's answers qstat and qacct, at time
\* t, with the files mfile (<jobid>.missing) and efile (<jobid>.exit).
\* calls lists the calls made, in order; qstat, exit and missing are what each
\* call gave (Skipped when it was not made); status is the value returned, or
\* the exception that ended the run.
check_status(qstat, qacct, config, t, mfile, efile) ==
    LET q == qstat_status(qstat, config)
        c == cluster_dir_status(efile)
        reset == missing_status(mfile, TRUE, t, config.missing_job_wait, qacct)
        m == missing_status(mfile, FALSE, t, config.missing_job_wait, qacct)
        asked == QacctAsked(mfile, FALSE, t, config.missing_job_wait)
    IN  IF q \in Raised
        THEN [status |-> q, calls |-> <<"qstat_status">>,
              qstat |-> q, exit |-> Skipped, missing |-> Skipped,
              mfile |-> mfile, efile |-> efile]
        ELSE IF q # "StatusCheckException"
        THEN [status |-> q,
              calls |-> <<"qstat_status", "missing_status(reset=True)">>,
              qstat |-> q, exit |-> Skipped, missing |-> Skipped,
              mfile |-> reset.file, efile |-> efile]
        ELSE IF c.status \in Raised
        THEN [status |-> c.status,
              calls |-> <<"qstat_status", "cluster_dir_status">>,
              qstat |-> q, exit |-> c.status, missing |-> Skipped,
              mfile |-> mfile, efile |-> c.file]
        ELSE IF c.status # "StatusCheckException"
        THEN [status |-> c.status,
              calls |-> <<"qstat_status", "cluster_dir_status",
                          "missing_status(reset=True)">>,
              qstat |-> q, exit |-> c.status, missing |-> Skipped,
              mfile |-> reset.file, efile |-> c.file]
        ELSE [status |-> m.status,
              calls |-> <<"qstat_status", "cluster_dir_status",
                          "missing_status(reset=False)">>
                        \o (IF asked THEN <<"qacct_status">> ELSE <<>>),
              qstat |-> q, exit |-> c.status, missing |-> m.status,
              mfile |-> m.file, efile |-> c.file]

----------------------------------------------------------------------------
(* The state machine *)

Configs ==
    [cpu_hung_min_time : CpuHungMinTimes,
     cpu_hung_max_ratio : CpuHungMaxRatios,
     missing_job_wait : MissingJobWaits]

\* the qstat answers of the polls: at most one usage line
QstatPolls == {q \in QstatOutputs : Len(q.usage) <= 1}

NoRun ==
    [status |-> Skipped, calls |-> <<>>, qstat |-> Skipped, exit |-> Skipped,
     missing |-> Skipped, mfile |-> NoFile, efile |-> NoExit]

\* last: the most recent check_status call and what it was given, until the
\* world moves on; qdel_before: an earlier call has run qdel
NoCall ==
    [op |-> "none", at |-> 0, qstat_rc |-> 0, qacct_in |-> QacctNotRun,
     mfile_in |-> NoFile, efile_in |-> NoExit, hung |-> Skipped, qdel |-> 0,
     qdel_rc |-> QdelNotRun, qdel_before |-> FALSE, run |-> NoRun]

\* last once the world has moved on: only whether a qdel has been run so far
\* is kept
Idle(call) == [NoCall EXCEPT !.qdel_before = call.qdel_before \/ call.qdel > 0]

\* probe: one call of qstat_status, qacct_status or extract_time alone, with
\* what it was given
NoProbe ==
    [op |-> "none", qstat_in |-> QstatFailed, qacct_in |-> QacctNotRun,
     time_in |-> <<>>, hung |-> Skipped, qdel |-> 0, status |-> Skipped,
     seconds |-> 0]

\* the processes that may run qsub-status.py <jobid> for the same jobid at
\* the same time
Procs == {1, 2}

\* a process that is not running check_status; pc: the statement it is at,
\* source: the function its status came from, raced: a file it went for was
\* gone, calls: the runs it has started
NoInvocation ==
    [pc |-> "idle", status |-> Skipped, source |-> Skipped, raced |-> FALSE,
     calls |-> 0]

\* race: the processes, whether the wrapper has written <jobid>.exit, the
\* runs that took their status from <jobid>.exit and those of them that have
\* returned
NoRace ==
    [proc |-> [p \in Procs |-> NoInvocation], written |-> FALSE,
     consumers |-> 0, returned |-> 0]

\* what handle_hung_qstat gives within qstat_status
HungVerdict(qstat, config) ==
    IF qstat.returncode # 0 THEN Skipped
    ELSE handle_hung_qstat(qstat, config.cpu_hung_min_time,
                           config.cpu_hung_max_ratio)

Init ==
    /\ race = NoRace
    /\ cfg \in Configs
    /\ now = 0
    /\ missing = NoFile
    /\ exitFile = NoExit
    /\ last = NoCall
    /\ probe = NoProbe

\* python qsub-status.py <jobid>
CheckStatus ==
    \E qstat \in QstatPolls :
      \E qacct \in IF qstat.returncode # 0 /\ ~exitFile.exists
                      /\ QacctAsked(missing, FALSE, now, cfg.missing_job_wait)
                   THEN QacctOutputs ELSE {QacctNotRun} :
       \E qdel_rc \in IF QdelRuns(HungVerdict(qstat, cfg)) > 0
                        THEN QdelReturnCodes ELSE {QdelNotRun} :
        LET run == check_status(qstat, qacct, cfg, now, missing, exitFile)
        IN  /\ missing' = run.mfile
            /\ exitFile' = run.efile
            /\ last' = [op |-> "check_status", at |-> now,
                        qstat_rc |-> qstat.returncode,
                        qacct_in |-> qacct, mfile_in |-> missing,
                        efile_in |-> exitFile, hung |-> HungVerdict(qstat, cfg),
                        qdel |-> QdelRuns(HungVerdict(qstat, cfg)),
                        qdel_rc |-> qdel_rc,
                        qdel_before |-> last.qdel_before \/ last.qdel > 0,
                        run |-> run]
            /\ UNCHANGED <<race, cfg, now, probe>>

\* the job script's wrapper writes <jobid>.exit
JobWritesExit ==
    \E content \in Contents :
        /\ exitFile' = ExitFile(content)
        /\ last' = Idle(last)
        /\ UNCHANGED <<race, cfg, now, missing, probe>>

\* time passes
Tick ==
    /\ now < MaxTicks * TickSeconds
    /\ now' = now + TickSeconds
    /\ last' = Idle(last)
    /\ UNCHANGED <<race, cfg, missing, exitFile, probe>>

Next == CheckStatus \/ JobWritesExit \/ Tick

Spec == Init /\ [][Next]_vars

----------------------------------------------------------------------------
(* qstat_status alone, on every qstat answer and every configuration *)

InitQstat ==
    /\ race = NoRace
    /\ cfg \in Configs
    /\ now = 0
    /\ missing = NoFile
    /\ exitFile = NoExit
    /\ last = NoCall
    /\ probe \in {[NoProbe EXCEPT !.qstat_in = q] : q \in QstatOutputs}

QstatStatus ==
    LET qstat == probe.qstat_in IN
        /\ probe.op = "none"
        /\ probe' = [probe EXCEPT !.op = "qstat_status",
                                   !.hung = HungVerdict(qstat, cfg),
                                   !.qdel = QdelRuns(HungVerdict(qstat, cfg)),
                                   !.status = qstat_status(qstat, cfg)]
        /\ UNCHANGED <<race, cfg, now, missing, exitFile, last>>

NextQstat == QstatStatus

SpecQstat == InitQstat /\ [][NextQstat]_vars

----------------------------------------------------------------------------
(* qacct_status alone, on every qacct answer *)

InitQacct ==
    /\ race = NoRace
    /\ cfg \in Configs
    /\ now = 0
    /\ missing = NoFile
    /\ exitFile = NoExit
    /\ last = NoCall
    /\ probe \in {[NoProbe EXCEPT !.qacct_in = q] : q \in QacctOutputs}

QacctStatus ==
    /\ probe.op = "none"
    /\ probe' = [probe EXCEPT !.op = "qacct_status",
                               !.status = qacct_status(probe.qacct_in)]
    /\ UNCHANGED <<race, cfg, now, missing, exitFile, last>>

NextQacct == QacctStatus

SpecQacct == InitQacct /\ [][NextQacct]_vars

----------------------------------------------------------------------------
(* extract_time alone, on a usage line "wallclock=<token>, " for every token *)

InitTime ==
    /\ race = NoRace
    /\ cfg \in {c \in Configs : c.cpu_hung_min_time = 1 /\ c.cpu_hung_max_ratio = 1
                                 /\ c.missing_job_wait = 1}
    /\ now = 0
    /\ missing = NoFile
    /\ exitFile = NoExit
    /\ last = NoCall
    /\ probe \in {[NoProbe EXCEPT !.time_in = token] : token \in TimeTokens}

ExtractTime ==
    /\ probe.op = "none"
    /\ probe' = [probe EXCEPT
                   !.op = "extract_time",
                   !.seconds = extract_time(UsageLine(Field(probe.time_in), Absent),
                                            "wallclock")]
    /\ UNCHANGED <<race, cfg, now, missing, exitFile, last>>

NextTime == ExtractTime

SpecTime == InitTime /\ [][NextTime]_vars

----------------------------------------------------------------------------
(* A job that qstat never knows and that never writes <jobid>.exit, polled
   again and again while time passes *)

InitMissing ==
    /\ race = NoRace
    /\ cfg \in Configs
    /\ now = 0
    /\ missing = NoFile
    /\ exitFile = NoExit
    /\ last = NoCall
    /\ probe = NoProbe

\* qstat -j <jobid> exits non-zero on every poll
QstatMisses == {q \in QstatPolls : q.returncode # 0}

\* python qsub-status.py <jobid>, with qstat failing and no <jobid>.exit
PollMissing ==
    \E qstat \in QstatMisses :
      \E qacct \in IF QacctAsked(missing, FALSE, now, cfg.missing_job_wait)
                   THEN QacctOutputs ELSE {QacctNotRun} :
        LET run == check_status(qstat, qacct, cfg, now, missing, exitFile)
        IN  /\ exitFile = NoExit
            /\ missing' = run.mfile
            /\ last' = [op |-> "check_status", at |-> now,
                        qstat_rc |-> qstat.returncode,
                        qacct_in |-> qacct, mfile_in |-> missing,
                        efile_in |-> exitFile, hung |-> HungVerdict(qstat, cfg),
                        qdel |-> QdelRuns(HungVerdict(qstat, cfg)),
                        qdel_rc |-> QdelNotRun,
                        qdel_before |-> last.qdel_before \/ last.qdel > 0,
                        run |-> run]
            /\ UNCHANGED <<race, cfg, now, exitFile, probe>>

\* <jobid>.missing seen TickSeconds later by a clock that stays where it is
Aged(file) ==
    IF file.exists /\ file.mtime >= TickSeconds
    THEN MissingFile(file.mtime - TickSeconds)
    ELSE file

\* time passes; only time.time() - st_mtime is ever read, so at the end of the
\* modelled clock the timestamp of <jobid>.missing moves back instead
TimePasses ==
    /\ IF now < MaxTicks * TickSeconds
       THEN now' = now + TickSeconds /\ missing' = missing
       ELSE now' = now /\ missing' = Aged(missing)
    /\ last' = Idle(last)
    /\ UNCHANGED <<race, cfg, exitFile, probe>>

NextMissing == PollMissing \/ TimePasses

\* the script keeps being invoked and the clock keeps running
SpecMissing ==
    InitMissing /\ [][NextMissing]_vars
        /\ WF_vars(PollMissing) /\ WF_vars(TimePasses)

----------------------------------------------------------------------------
(* Two processes running check_status for the same jobid, one file
   operation at a time *)

InitRace ==
    /\ race = NoRace
    /\ cfg \in {c \in Configs : c.cpu_hung_min_time = 1 /\ c.cpu_hung_max_ratio = 1}
    /\ now = 0
    /\ missing = NoFile
    /\ exitFile = NoExit
    /\ last = NoCall
    /\ probe = NoProbe

At(p, pc) == race.proc[p].pc = pc

\* process p goes on as invocation
Goto(p, invocation) == [race EXCEPT !.proc[p] = invocation]

\* python qsub-status.py <jobid> is started
RaceStart ==
    \E p \in Procs :
        /\ At(p, "idle")
        /\ race.proc[p].calls < MaxCalls
        /\ race' = Goto(p, [NoInvocation EXCEPT !.pc = "qstat_status",
                                               !.calls = race.proc[p].calls + 1])
        /\ UNCHANGED <<cfg, now, missing, exitFile, last, probe>>

\* status = qstat_status(jobid)
RaceQstat ==
    \E p \in Procs, qstat \in QstatPolls :
        LET status == qstat_status(qstat, cfg)
        IN  /\ At(p, "qstat_status")
            /\ race' = Goto(p,
                 IF status \in Raised
                 THEN [race.proc[p] EXCEPT !.pc = "raised", !.status = status]
                 ELSE IF status \in Statuses
                 THEN [race.proc[p] EXCEPT !.pc = "reset", !.status = status,
                                           !.source = "qstat_status"]
                 ELSE [race.proc[p] EXCEPT !.pc = "open"])
            /\ UNCHANGED <<cfg, now, missing, exitFile, last, probe>>

\* cluster_dir_status up to the status: open, readlines
RaceOpen ==
    \E p \in Procs :
        LET status == cluster_dir_status(exitFile).status
        IN  /\ At(p, "open")
            /\ race' =
                 IF status \in Raised
                 THEN Goto(p, [race.proc[p] EXCEPT !.pc = "raised",
                                                   !.status = status])
                 ELSE IF status \in Statuses
                 THEN [Goto(p, [race.proc[p] EXCEPT
                                  !.pc = "exit_unlink", !.status = status,
                                  !.source = "cluster_dir_status"])
                         EXCEPT !.consumers = race.consumers + 1]
                 ELSE Goto(p, [race.proc[p] EXCEPT !.pc = "exists"])
            /\ UNCHANGED <<cfg, now, missing, exitFile, last, probe>>

\* ExitUnlinked that leaves <jobid>.exit where it is
ExitUnlinked_kept(file) == file

\* exit_file_path.unlink()
ExitUnlinked(file) == NoExit

\* cluster_dir_status: the unlink, FileNotFoundError passed over
RaceExitUnlink ==
    \E p \in Procs :
        /\ At(p, "exit_unlink")
        /\ exitFile' = ExitUnlinked(exitFile)
        /\ race' = Goto(p, [race.proc[p] EXCEPT
                              !.pc = "reset",
                              !.raced = race.proc[p].raced \/ ~exitFile.exists])
        /\ UNCHANGED <<cfg, now, missing, last, probe>>

\* missing_status(jobid, reset=True), then "return status"
RaceReset ==
    \E p \in Procs :
        /\ At(p, "reset")
        /\ missing' = Unlinked(missing, TRUE, "running")
        /\ race' = [Goto(p, [race.proc[p] EXCEPT !.pc = "returned"])
                      EXCEPT !.returned =
                               IF race.proc[p].source = "cluster_dir_status"
                               THEN race.returned + 1 ELSE race.returned]
        /\ UNCHANGED <<cfg, now, exitFile, last, probe>>

\* missing_status(jobid, reset=False): "if not p.exists()"
RaceExists ==
    \E p \in Procs :
        /\ At(p, "exists")
        /\ race' = Goto(p, [race.proc[p] EXCEPT
                              !.pc = IF missing.exists THEN "stat" ELSE "touch"])
        /\ UNCHANGED <<cfg, now, missing, exitFile, last, probe>>

\* p.touch(): creates <jobid>.missing or renews its timestamp; the status
\* stays "running" and the function returns
RaceTouch ==
    \E p \in Procs :
        /\ At(p, "touch")
        /\ missing' = MissingFile(now)
        /\ race' = Goto(p, [race.proc[p] EXCEPT
                              !.pc = "returned", !.status = "running",
                              !.source = "missing_status"])
        /\ UNCHANGED <<cfg, now, exitFile, last, probe>>

\* p.stat().st_mtime, which raises FileNotFoundError when the file is gone,
\* then the comparison and qacct_status
RaceStat ==
    \E p \in Procs :
      \E qacct \in IF QacctAsked(missing, FALSE, now, cfg.missing_job_wait)
                   THEN QacctOutputs ELSE {QacctNotRun} :
        LET status == MissingVerdict(missing, FALSE, now,
                                     cfg.missing_job_wait, qacct)
        IN  /\ At(p, "stat")
            /\ race' = Goto(p,
                 IF ~missing.exists
                 THEN [race.proc[p] EXCEPT !.pc = "raised", !.raced = TRUE,
                                           !.status = "FileNotFoundError"]
                 ELSE [race.proc[p] EXCEPT
                         !.pc = IF status = "failed" THEN "missing_unlink"
                                ELSE "returned",
                         !.status = status, !.source = "missing_status"])
            /\ UNCHANGED <<cfg, now, missing, exitFile, last, probe>>

\* missing_status: the unlink of a failed job, FileNotFoundError passed over
RaceMissingUnlink ==
    \E p \in Procs :
        /\ At(p, "missing_unlink")
        /\ missing' = Unlinked(missing, FALSE, race.proc[p].status)
        /\ race' = Goto(p, [race.proc[p] EXCEPT
                              !.pc = "returned",
                              !.raced = race.proc[p].raced \/ ~missing.exists])
        /\ UNCHANGED <<cfg, now, exitFile, last, probe>>

\* the process has printed its status, or has died of its exception, and is
\* free for the next poll
RaceExit ==
    \E p \in Procs :
        /\ At(p, "returned") \/ At(p, "raised")
        /\ race' = Goto(p, [NoInvocation EXCEPT !.calls = race.proc[p].calls])
        /\ UNCHANGED <<cfg, now, missing, exitFile, last, probe>>

\* an empty file or one line with the exit code
ShortContents == {c \in Contents : Len(c) = 0 \/ Len(c) = 2}

\* the job script's wrapper writes <jobid>.exit, once
RaceJobWritesExit ==
    \E content \in ShortContents :
        /\ ~race.written
        /\ exitFile' = ExitFile(content)
        /\ race' = [race EXCEPT !.written = TRUE]
        /\ UNCHANGED <<cfg, now, missing, last, probe>>

\* time passes
RaceTick ==
    /\ now < MaxTicks * TickSeconds
    /\ now' = now + TickSeconds
    /\ UNCHANGED <<cfg, missing, exitFile, last, probe, race>>

NextRace ==
    \/ RaceStart \/ RaceQstat \/ RaceOpen \/ RaceExitUnlink \/ RaceReset
    \/ RaceExists \/ RaceTouch \/ RaceStat \/ RaceMissingUnlink \/ RaceExit
    \/ RaceJobWritesExit \/ RaceTick

SpecRace == InitRace /\ [][NextRace]_vars

----------------------------------------------------------------------------
(* Properties of check_status, stated on the state right after a call *)

Polled == last.op = "check_status"

\* qstat failed and there was no <jobid>.exit file
BothNotFound == Polled /\ last.qstat_rc # 0 /\ ~last.efile_in.exists

\* seconds between the timestamp of <jobid>.missing and the call
Elapsed == last.at - last.mfile_in.mtime

GraceSeconds == cfg.missing_job_wait * 60

Position(calls, name) ==
    IF \E i \in 1..Len(calls) : calls[i] = name
    THEN CHOOSE i \in 1..Len(calls) : calls[i] = name
    ELSE 0

\* the status of the first of qstat, exit file, missing file that gave one
FirstResolved(run) ==
    IF run.qstat \in Statuses THEN run.qstat
    ELSE IF run.exit \in Statuses THEN run.exit
    ELSE run.missing

\* C1: every check_status call runs qstat first; it looks at the exit file
\* (and may delete it) only if qstat failed, and second; it calls
\* missing_status(reset=False) only if qstat failed and there was no exit
\* file, and third; the value returned is the status of the first of the
\* three that gave one.
C1_SourcesInFixedOrder ==
    Polled =>
        LET calls == last.run.calls
            atExit == Position(calls, "cluster_dir_status")
            atMissing == Position(calls, "missing_status(reset=False)")
        IN  /\ Position(calls, "qstat_status") = 1
            /\ atExit # 0 => last.qstat_rc # 0 /\ atExit = 2
            /\ exitFile # last.efile_in => last.qstat_rc # 0
            /\ atMissing # 0 =>
                 last.qstat_rc # 0 /\ ~last.efile_in.exists /\ atMissing = 3
            /\ last.run.status \in Statuses =>
                 last.run.status = FirstResolved(last.run)

\* a call that went through all three sources, with the exit file waiting
\* for qstat to fail in another
C1_Witness_AllThreeConsulted ==
    /\ Polled
    /\ Len(last.run.calls) >= 3
    /\ last.run.calls[3] = "missing_status(reset=False)"
    /\ last.run.status = "running"

\* C2 (as claimed): after the grace period, with qstat failed, no exit file,
\* and qacct reporting failed "0" and exit_status "0", check_status returns
\* success and <jobid>.missing is gone.
AccountingClean ==
    /\ last.qacct_in.returncode = 0
    /\ last.qacct_in.lines = << <<"failed", "0">>, <<"exit_status", "0">> >>

C2_SuccessDeletesMarker ==
    (BothNotFound /\ last.mfile_in.exists /\ Elapsed > GraceSeconds
        /\ AccountingClean)
    => (last.run.status = "success" /\ ~missing.exists)

\* C3: after the grace period, with qstat failed and no exit file, a qacct
\* that fails or reports a failure makes check_status return failed, and
\* <jobid>.missing is gone.
AccountingBad ==
    \/ last.qacct_in.returncode > 0
    \/ /\ last.qacct_in.returncode = 0
       /\ last.qacct_in.lines \in
            { << <<"failed", "0">>, <<"exit_status", "1">> >>,
              << <<"failed", "1">>, <<"exit_status", "0">> >> }

C3_FailedDeletesMarker ==
    (BothNotFound /\ last.mfile_in.exists /\ Elapsed > GraceSeconds
        /\ AccountingBad)
    => (last.run.status = "failed" /\ ~missing.exists)

C3_Witness_AccountingNotFound ==
    /\ BothNotFound /\ last.mfile_in.exists /\ Elapsed > GraceSeconds
    /\ last.qacct_in.returncode > 0
    /\ last.run.status = "failed"

\* C4: with qstat failed, no exit file and no <jobid>.missing, check_status
\* returns running and <jobid>.missing exists, stamped with the time of the
\* call.
C4_FirstMissCreatesMarker ==
    (BothNotFound /\ ~last.mfile_in.exists)
    => (last.run.status = "running" /\ missing = MissingFile(last.at))

C4_Witness_FirstMissLater ==
    BothNotFound /\ ~last.mfile_in.exists /\ last.at > 0 /\ missing.exists

\* C5: with qstat failed, no exit file, and a <jobid>.missing younger than
\* the grace period, check_status returns running and leaves the file and
\* its timestamp as they were; and no call ever moves the timestamp of a
\* file that is there before and after it.
C5_WithinGraceMarkerUnchanged ==
    /\ (BothNotFound /\ last.mfile_in.exists /\ Elapsed < GraceSeconds)
         => (last.run.status = "running" /\ missing = last.mfile_in)
    /\ (Polled /\ last.mfile_in.exists /\ missing.exists)
         => missing.mtime = last.mfile_in.mtime

C5_Witness_SecondPollWithinGrace ==
    /\ BothNotFound /\ last.mfile_in.exists
    /\ Elapsed > 0 /\ Elapsed < GraceSeconds
    /\ missing.exists

\* C6: after a check_status call in which qstat or the exit file gave the
\* status, there is no <jobid>.missing, and the call returned a status
\* whether or not the file was there before.
LiveResolved == Polled /\ (last.run.qstat \in Statuses \/ last.run.exit \in Statuses)

C6_ResolvedResetsMarker ==
    LiveResolved => (~missing.exists /\ last.run.status \in Statuses)

C6_Witness_MarkerWasPresent ==
    LiveResolved /\ last.mfile_in.exists /\ last.run.status = "running"

\* C7 (as claimed): whenever <jobid>.exit is found, cluster_dir_status gives
\* success exactly when the stripped last line is "0" and failed otherwise,
\* and the file is gone afterwards.
LastLineIsZero(content) ==
    content \in { <<"0", NL>>, <<"0">>, <<"1", NL, "0", NL>>,
                  <<" ", "0", " ", NL>> }

C7_ExitFileAlwaysConsumed ==
    (Polled /\ last.qstat_rc # 0 /\ last.efile_in.exists)
    => /\ last.run.exit = IF LastLineIsZero(last.efile_in.content)
                          THEN "success" ELSE "failed"
       /\ ~exitFile.exists

\* C11: whenever each source that is consulted either gives a status or
\* raises StatusCheckException, check_status returns one of running, success,
\* failed: a StatusCheckException of qstat leads to the exit file, one of the
\* exit file to missing_status, one of qacct to failed, and none reaches the
\* caller.
Called(name) == Position(last.run.calls, name) # 0

C11_NotFoundNeverPropagates ==
    (Polled /\ last.run.qstat \notin Raised /\ last.run.exit \notin Raised)
    => /\ last.run.status \in Statuses
       /\ last.qstat_rc # 0 => Called("cluster_dir_status")
       /\ (last.qstat_rc # 0 /\ ~last.efile_in.exists)
            => Called("missing_status(reset=False)")
       /\ (Called("qacct_status") /\ last.qacct_in.returncode > 0)
            => last.run.status = "failed"

C11_Witness_AllSourcesNotFound ==
    /\ Polled
    /\ last.qstat_rc # 0
    /\ ~last.efile_in.exists
    /\ Called("qacct_status")
    /\ last.qacct_in.returncode > 0
    /\ last.run.status \in Statuses

\* C16: qacct_status is called only in a check_status call in which qstat
\* failed, there was no exit file, <jobid>.missing was already there, and the
\* time since its timestamp is above missing_job_wait.
C16_QacctOnlyAfterGrace ==
    (Polled /\ Called("qacct_status"))
    => /\ BothNotFound
       /\ last.mfile_in.exists
       /\ Elapsed > GraceSeconds
       /\ last.qacct_in.returncode >= 0

C16_Witness_QacctAfterOneMinute ==
    /\ Polled
    /\ Called("qacct_status")
    /\ cfg.missing_job_wait > 0
    /\ last.run.status = "success"

\* C19: a check_status call runs qdel if and only if handle_hung_qstat
\* declares the job hung in that call, also when an earlier call has run it
\* already; the call then returns failed, whatever qdel did.
C19_QdelIffHungEveryPoll ==
    Polled =>
        /\ last.qdel \in {0, 1}
        /\ last.qdel = 1 <=> last.hung = "hung"
        /\ last.qdel = 1 => last.run.status = "failed"

C19_Witness_QdelRunAgain ==
    /\ Polled /\ last.qdel_before
    /\ last.qdel = 1 /\ last.qdel_rc = 1 /\ last.run.status = "failed"

\* C20: when qstat never finds the job, no <jobid>.exit is ever written, the
\* script keeps being invoked and time keeps passing, some call returns
\* success or failed.
TerminalAfterMissing ==
    BothNotFound /\ last.run.status \in {"success", "failed"}

C20_EventuallyTerminal == <>TerminalAfterMissing

C20_Witness_TerminalAfterWait ==
    /\ TerminalAfterMissing
    /\ last.mfile_in.exists
    /\ Elapsed > GraceSeconds
    /\ last.qacct_in # QacctNotRun

----------------------------------------------------------------------------
(* Properties of qstat_status and handle_hung_qstat, stated on the state
   right after a call *)

QstatAnswered == probe.op = "qstat_status" /\ probe.qstat_in.returncode = 0

StateHasErrorCode ==
    /\ probe.qstat_in.job_state # <<>>
    /\ \E i \in 1..Len(probe.qstat_in.job_state[1]) :
          probe.qstat_in.job_state[1][i] = "E"

\* C8 (as claimed): when qstat succeeds, qstat_status returns failed if the
\* job_state carries an error code or handle_hung_qstat returned hung, and
\* running otherwise; never success.
C8_QstatFailedOrRunning ==
    QstatAnswered =>
        probe.status = IF StateHasErrorCode \/ probe.hung = "hung"
                       THEN "failed" ELSE "running"

\* the usage sample handle_hung_qstat looks at
Sampled == QstatAnswered /\ probe.qstat_in.usage # <<>>
SampleWallclock == extract_time(probe.qstat_in.usage[1], "wallclock")
SampleCpu == extract_time(probe.qstat_in.usage[1], "cpu")

\* C9: for every usage sample and configuration, handle_hung_qstat declares
\* the job hung if and only if wallclock >= cpu_hung_min_time * 60 and
\* cpu / wallclock < cpu_hung_max_ratio (cpu < cpu_hung_max_ratio * wallclock,
\* which no cpu >= 0 satisfies when wallclock is 0).
C9_HungIffLowRatio ==
    Sampled =>
        ((probe.hung = "hung") <=>
            /\ SampleWallclock >= cfg.cpu_hung_min_time * 60
            /\ SampleCpu < cfg.cpu_hung_max_ratio * SampleWallclock)

C9_Witness_HungDeclared ==
    Sampled /\ probe.hung = "hung" /\ cfg.cpu_hung_min_time > 0 /\ SampleCpu > 0

\* C10 (as claimed): for a usage sample with wallclock = 0,
\* handle_hung_qstat gives not-hung, without failing, for every
\* cpu_hung_min_time, 0 included.
C10_ZeroWallclockNeverHung ==
    (Sampled /\ SampleWallclock = 0) => probe.hung = "nothung"

\* C14 (as claimed): if the wallclock field or the cpu field is absent from
\* the usage line, handle_hung_qstat gives not-hung and runs no qdel, for
\* every cpu_hung_min_time and cpu_hung_max_ratio.
C14_AbsentFieldNeverHung ==
    (Sampled /\ (~probe.qstat_in.usage[1].wallclock.present
                    \/ ~probe.qstat_in.usage[1].cpu.present))
    => (probe.hung = "nothung" /\ probe.qdel = 0)

\* usage line i satisfies the hung condition
LineIsHung(i) ==
    LET wallclock == extract_time(probe.qstat_in.usage[i], "wallclock")
        cpu == extract_time(probe.qstat_in.usage[i], "cpu")
    IN  /\ wallclock >= cfg.cpu_hung_min_time * 60
        /\ cpu < cfg.cpu_hung_max_ratio * wallclock

\* C15 (as claimed): every usage line of a successful qstat report is
\* evaluated, and if any one of them satisfies the hung condition the status
\* is failed, whatever the job_state.
C15_AnyHungLineFails ==
    (QstatAnswered /\ \E i \in 1..Len(probe.qstat_in.usage) : LineIsHung(i))
    => probe.status = "failed"

\* C15 (amended): only the first usage line is evaluated: if it satisfies the
\* hung condition the status is failed, whatever the job_state; if it does
\* not, no job is declared hung, no qdel is run, and without an error code in
\* the job_state the status is not failed, whatever the later usage lines.
C15_FirstUsageLineDecides ==
    Sampled =>
        /\ LineIsHung(1) => probe.status = "failed"
        /\ ~LineIsHung(1) =>
             /\ probe.hung # "hung"
             /\ probe.qdel = 0
             /\ ~StateHasErrorCode => probe.status # "failed"

C15_Witness_SecondLineHungIgnored ==
    /\ Sampled
    /\ Len(probe.qstat_in.usage) >= 2
    /\ ~LineIsHung(1)
    /\ LineIsHung(2)
    /\ probe.status = "running"

----------------------------------------------------------------------------
(* Properties of qacct_status, stated on the state right after a call *)

QacctAnswered == probe.op = "qacct_status" /\ probe.qacct_in.returncode = 0

\* the value the key has in the mapping parsed from the lines: that of the
\* last line with this key and a value, "absent" when there is none
Parsed(key) ==
    LET lines == probe.qacct_in.lines
        at == {i \in 1..Len(lines) : Len(lines[i]) >= 2 /\ lines[i][1] = key}
    IN  IF at = {} THEN "absent"
        ELSE lines[CHOOSE i \in at : \A j \in at : j <= i][2]

\* C12: when qacct succeeds, qacct_status returns success if and only if the
\* parsed mapping has failed "0" and exit_status "0"; anything else, an
\* absent key included, gives failed; it never returns running.
C12_QacctSuccessIffBothZero ==
    QacctAnswered =>
        probe.status = IF Parsed("failed") = "0" /\ Parsed("exit_status") = "0"
                       THEN "success" ELSE "failed"

C12_Witness_AbsentKeyFails ==
    /\ QacctAnswered
    /\ Parsed("failed") = "absent"
    /\ Parsed("exit_status") = "0"
    /\ probe.status = "failed"

----------------------------------------------------------------------------
(* Properties of extract_time, stated on the state right after a call *)

Extracted == probe.op = "extract_time"

\* the number a field reads as
FieldValue(text) ==
    IF text \in {<<1>>, <<0, 1>>} THEN 1
    ELSE IF text = <<0, 2>> THEN 2
    ELSE IF text = <<0, 3>> THEN 3
    ELSE 0

\* the k-th field of the token counted from the right
FromRight(k) == FieldValue(probe.time_in[Len(probe.time_in) + 1 - k])

Weights == <<1, 60, 3600, 86400>>

RECURSIVE WeighedSum(_)
WeighedSum(k) ==
    IF k = 0 THEN 0 ELSE FromRight(k) * Weights[k] + WeighedSum(k - 1)

\* the sum over the (at most four) rightmost fields
FourFieldSum ==
    WeighedSum(IF Len(probe.time_in) < 4 THEN Len(probe.time_in) ELSE 4)

\* C13 (as claimed): extract_time gives the sum of every field times its
\* positional multiplier, whatever the number of fields, and ignores no
\* field: a field left of the fourth counts with a positive multiplier too.
C13_EveryFieldCounts ==
    Extracted =>
        /\ Len(probe.time_in) <= 4 => probe.seconds = FourFieldSum
        /\ \A k \in 5..Len(probe.time_in) :
               FromRight(k) > 0 => probe.seconds > FourFieldSum

\* C13 (amended): extract_time gives the sum of the four rightmost fields
\* times 1, 60, 3600 and 86400; fields left of the fourth are ignored.
C13_FourFieldsCount ==
    Extracted => probe.seconds = FourFieldSum

\* "1:00:00:00" gives 86400
C13_Witness_OneDay ==
    /\ Extracted
    /\ probe.time_in = << <<1>>, <<0, 0>>, <<0, 0>>, <<0, 0>> >>
    /\ probe.seconds = 86400

----------------------------------------------------------------------------
(* Properties of two processes polling the same jobid *)

Invocation(p) == race.proc[p]

\* C17: a run of check_status that went for a file another run had just
\* removed neither dies of an exception nor returns anything but running,
\* success or failed.
C17_VanishedFileSwallowed ==
    \A p \in Procs :
        Invocation(p).raced =>
            /\ ~At(p, "raised")
            /\ At(p, "returned") => Invocation(p).status \in Statuses

\* C18, as stated: at most one run of check_status takes its status from
\* <jobid>.exit, also when runs overlap.
C18_ExitFileConsumedOnce == race.consumers <= 1

\* C18, amended: once a run that took its status from <jobid>.exit has
\* returned the file is gone, so no run that starts later takes its status
\* from it; only runs that overlap can both read it, and of those no more than
\* there are processes.
C18_ConsumedBeforeReturn ==
    /\ race.returned > 0 => ~exitFile.exists
    /\ race.consumers <= Cardinality(Procs)

C18_Witness_LaterRunFindsNothing ==
    /\ race.written /\ ~exitFile.exists
    /\ race.returned = 1 /\ race.consumers = 1
    /\ \E p \in Procs : At(p, "exists") /\ Invocation(p).calls = MaxCalls

====
